---- MODULE Spec2Model ----
(***************************************************************************)
(* A model of gradio/utils.py: the AsyncRequest wrapper, task cancellation *)
(* by name, the launch counter, the analytics pings, set_directory and the *)
(* filename / name helpers.  Every component has its own specification;    *)
(* the variables of the components a specification does not exercise stay  *)
(* at their idle values.                                                   *)
(***************************************************************************)
EXTENDS Integers, Sequences, FiniteSets, TLC

VARIABLES
    component,  \* the part of the module a behaviour exercises
    req,        \* the AsyncRequest object: its fields and constructor arguments
    awaited,    \* number of times the request has been awaited
    awaitOut,   \* what the last await gave its caller
    validOut,   \* what the last is_valid call gave its caller
    py38,       \* sys.version_info >= (3, 8)
    tasks,      \* the tasks of the event loop: state, name, pending cancellation
    ct,         \* the call of cancel_tasks: position, arguments, outcome
    file,       \* the launch counter file at JSON_PATH
    procs,      \* the processes calling launch_counter: position and locals
    lc,         \* what the calls of launch_counter did so far
    received,   \* the number of pings each analytics endpoint has received
    ping,       \* the last call of an analytics function and what it gave
    cwd,        \* the working directory of the process
    frames,     \* the set_directory contexts that are open, innermost last
    sd,         \* the last thing a set_directory context did
    sf,         \* the call of strip_invalid_filename_characters: locals
    us,         \* the call of append_unique_suffix: locals
    csv,        \* the call of sanitize_value_for_csv: argument and result
    cmp,        \* the call of assert_configs_are_equivalent_besides_ids
    root,       \* Context.root_block.dependencies
    named,      \* what set_task_name was called with, for each task
    cf          \* the call of a cancel function of get_cancel_function

vars == <<component, req, awaited, awaitOut, validOut, py38, tasks, ct,
          file, procs, lc, received, ping, cwd, frames, sd, sf, us, csv,
          cmp, root, named, cf>>

requestVars == <<req, awaited, awaitOut, validOut>>
taskVars == <<py38, tasks, ct>>
launchVars == <<file, procs, lc>>
analyticsVars == <<received, ping>>
directoryVars == <<cwd, frames, sd>>
helperVars == <<sf, us>>
utilityVars == <<csv, cmp>>
cancelVars == <<root, named, cf>>

----------------------------------------------------------------------------
(* Bounds *)

MaxAwaits == 2
MaxTasks == 2
MaxProcs == 2
MaxCalls == 3
MaxPings == 3
MaxDepth == 2
MaxLen == 4
MaxBudget == 5
MaxNames == 3
MaxCsvLen == 3
MaxComponents == 3
MaxDeps == 2

----------------------------------------------------------------------------
(* Python exception classes that occur in the module.  Bases gives the      *)
(* direct base classes; BaseException is the root.                          *)

Bases(cls) ==
    CASE cls = "Exception"          -> {"BaseException"}
      [] cls = "CancelledError"     -> {"BaseException"}
      [] cls = "SystemExit"         -> {"BaseException"}
      [] cls = "KeyboardInterrupt"  -> {"BaseException"}
      [] cls = "ConnectError"       -> {"Exception"}
      [] cls = "HTTPStatusError"    -> {"Exception"}
      [] cls = "JSONDecodeError"    -> {"ValueError"}
      [] cls = "ValidationError"    -> {"ValueError"}
      [] cls = "ValueError"         -> {"Exception"}
      [] cls = "TypeError"          -> {"Exception"}
      [] cls = "KeyError"           -> {"Exception"}
      [] cls = "CustomError"        -> {"Exception"}
      [] cls = "BodyError"          -> {"Exception"}
      [] cls = "OSError"            -> {"Exception"}
      [] cls = "PermissionError"    -> {"OSError"}
      [] cls = "FileNotFoundError"  -> {"OSError"}
      \* the classes of requests.exceptions
      [] cls = "RequestException"         -> {"OSError"}
      [] cls = "requests.ConnectionError" -> {"RequestException"}
      [] cls = "Timeout"                  -> {"RequestException"}
      [] cls = "ConnectTimeout"     -> {"requests.ConnectionError", "Timeout"}
      [] cls = "ReadTimeout"              -> {"Timeout"}
      [] cls = "SSLError"                 -> {"requests.ConnectionError"}
      [] cls = "TooManyRedirects"         -> {"RequestException"}
      [] cls = "ChunkedEncodingError"     -> {"RequestException"}
      [] OTHER                            -> {}

RECURSIVE IsInstance(_, _)
IsInstance(cls, base) ==
    \/ cls = base
    \/ \E b \in Bases(cls) : IsInstance(b, base)

----------------------------------------------------------------------------
(* AsyncRequest *)

None == "None"

\* None where an exception object, a response or a piece of data is expected.
NoException == [cls |-> None, arg |-> None, oid |-> 0]
NoResponse == [status_code |-> None, body |-> <<None>>]
NoData == <<None>>

\* Responses the client can deliver: a status code and a body that is or is
\* not JSON text.
StatusCodes == {"200", "404"}
Bodies == {<<"json", 1>>, <<"json", 2>>, <<"text", 0>>}
Responses == [status_code : StatusCodes, body : Bodies]

\* What client.send does: deliver a response or raise.
SendOutcomes ==
    [raises : {None}, resp : Responses]
      \cup [raises : {"ConnectError", "CancelledError"}, resp : {NoResponse}]

ValidationModels == {None, "ModelAny", "ModelOnly1"}
ValidationFunctions == {None, "FnWrap", "FnRaise", "FnExit"}
ExceptionTypes == {"Exception", "CustomError", "HTTPStatusError"}

\* AsyncRequest.__init__
NewRequest(vm, vf, et, rfs) ==
    [response            |-> NoResponse,
     exception           |-> NoException,
     status              |-> None,
     raise_for_status    |-> rfs,
     validation_model    |-> vm,
     validation_function |-> vf,
     exception_type      |-> et,
     validated_data      |-> NoData,
     json_response_data  |-> <<"unset">>]

\* httpx.Response.raise_for_status: raises for an error status.
RaisesForStatus(resp) == resp.status_code \in {"404"}

\* httpx.Response.json: parse the body, raising when it is not JSON.
ResponseJson(resp) ==
    IF resp.body[1] = "json"
    THEN [thrown |-> None, val |-> <<"raw", resp.body[2]>>]
    ELSE [thrown |-> "JSONDecodeError", val |-> NoData]

\* AsyncRequest._validate_response_by_model: parse_obj_as(model, response)
validate_response_by_model(model, response) ==
    IF model = "ModelOnly1" /\ response # <<"raw", 1>>
    THEN [thrown |-> "ValidationError", val |-> NoData]
    ELSE [thrown |-> None, val |-> <<"model", response>>]

\* AsyncRequest._validate_response_by_validation_function
validate_response_by_validation_function(fn, response) ==
    CASE fn = "FnRaise" -> [thrown |-> "ValueError", val |-> NoData]
      [] fn = "FnExit"  -> [thrown |-> "SystemExit", val |-> NoData]
      [] OTHER          -> [thrown |-> None, val |-> <<"fn", response>>]

\* The object a failed step makes: its class, the exception it wraps (None
\* for an exception raised by the step itself) and the await that made it.
ExcObject(cls, arg, n) == [cls |-> cls, arg |-> arg, oid |-> n]

\* The handler of _validate_response_data: what it stores for an exception
\* of class cls caught in await number n.
ValidationHandlerStores(r, cls, n) == ExcObject(cls, None, n)

validate_response_data_FunctionGetsRaw(r, response, n) ==
    LET m == IF r.validation_model # None
             THEN validate_response_by_model(r.validation_model, response)
             ELSE [thrown |-> None, val |-> response]
        f == IF m.thrown = None /\ r.validation_function # None
             THEN validate_response_by_validation_function(
                      r.validation_function, response)
             ELSE m
        thrown == IF m.thrown # None THEN m.thrown ELSE f.thrown
        validated == IF m.thrown # None THEN response
                     ELSE IF f.thrown # None THEN m.val
                     ELSE f.val
    IN  IF thrown = None
        THEN [r |-> r, ret |-> validated, thrown |-> None]
        ELSE IF IsInstance(thrown, "Exception")
        THEN [r |-> [r EXCEPT !.exception = ValidationHandlerStores(r, thrown, n)],
              ret |-> validated, thrown |-> None]
        ELSE [r |-> r, ret |-> NoData, thrown |-> thrown]

\* AsyncRequest._validate_response_data: the result is the request after the
\* call, the returned value and the exception that escapes (None if none).
validate_response_data(r, response, n) ==
    LET m == IF r.validation_model # None
             THEN validate_response_by_model(r.validation_model, response)
             ELSE [thrown |-> None, val |-> response]
        f == IF m.thrown = None /\ r.validation_function # None
             THEN validate_response_by_validation_function(
                      r.validation_function, m.val)
             ELSE m
        thrown == IF m.thrown # None THEN m.thrown ELSE f.thrown
        \* validated_response keeps the value of the last step that returned
        validated == IF m.thrown # None THEN response
                     ELSE IF f.thrown # None THEN m.val
                     ELSE f.val
    IN  IF thrown = None
        THEN [r |-> r, ret |-> validated, thrown |-> None]
        ELSE IF IsInstance(thrown, "Exception")
        THEN [r |-> [r EXCEPT !.exception = ValidationHandlerStores(r, thrown, n)],
              ret |-> validated, thrown |-> None]
        ELSE [r |-> r, ret |-> NoData, thrown |-> thrown]

\* The try block of AsyncRequest.__run: the request afterwards and the
\* exception that leaves the block (None if none).
RunTry(r, so, n) ==
    IF so.raises # None
    THEN [r |-> r, thrown |-> so.raises]
    ELSE
      LET r1 == [r EXCEPT !.response = so.resp,
                          !.status = so.resp.status_code]
          p  == ResponseJson(so.resp)
          r2 == [r1 EXCEPT !.json_response_data = p.val]
          v  == validate_response_data(r2, p.val, n)
      IN  IF r1.raise_for_status /\ RaisesForStatus(so.resp)
          THEN [r |-> r1, thrown |-> "HTTPStatusError"]
          ELSE IF p.thrown # None
          THEN [r |-> r1, thrown |-> p.thrown]
          ELSE IF v.thrown # None
          THEN [r |-> v.r, thrown |-> v.thrown]
          ELSE [r |-> [v.r EXCEPT !.validated_data = v.ret], thrown |-> None]

\* Calling exception_type(exception): HTTPStatusError needs the keyword
\* arguments request and response, so calling it with one argument raises.
CtorRaises(et) == et = "HTTPStatusError"

RunCatches_OnlyValueError(cls) == IsInstance(cls, "ValueError")

\* The classes the except clause of __run catches.
RunCatches(cls) == IsInstance(cls, "Exception")

\* AsyncRequest.__run: the request afterwards and what the await gives the
\* caller: "self", or the class of the exception that propagates.
Run(r, so, n) ==
    LET t == RunTry(r, so, n) IN
    IF t.thrown = None
    THEN [r |-> t.r, out |-> "self"]
    ELSE IF ~RunCatches(t.thrown)
    THEN [r |-> t.r, out |-> t.thrown]
    ELSE IF CtorRaises(t.r.exception_type)
    THEN [r |-> t.r, out |-> "TypeError"]
    ELSE [r |-> [t.r EXCEPT !.exception =
                     ExcObject(t.r.exception_type, t.thrown, n)],
          out |-> "self"]

\* AsyncRequest.has_exception
has_exception(r) == r.exception # NoException

is_valid_IgnoresFlag(r, raise_exceptions) ==
    IF r.exception # NoException
    THEN [ret |-> "False", raised |-> NoException]
    ELSE [ret |-> "True", raised |-> NoException]

\* AsyncRequest.is_valid: the returned value and the raised object.
is_valid(r, raise_exceptions) ==
    IF has_exception(r)
    THEN IF raise_exceptions
         THEN [ret |-> None, raised |-> r.exception]
         ELSE [ret |-> "False", raised |-> NoException]
    ELSE [ret |-> "True", raised |-> NoException]

\* The request before any is constructed.
IdleRequest ==
    /\ req = NewRequest(None, None, "Exception", FALSE)
    /\ awaited = MaxAwaits
    /\ awaitOut = [n |-> 0, out |-> None,
                   send |-> [raises |-> None, resp |-> NoResponse],
                   before |-> req]
    /\ validOut = [called |-> FALSE, raise_exceptions |-> FALSE, ret |-> None,
                   raised |-> NoException, before |-> req]

\* request = AsyncRequest(method, url, ...)
StartRequest ==
    /\ \E vm \in ValidationModels, vf \in ValidationFunctions,
          et \in ExceptionTypes, rfs \in BOOLEAN :
          req = NewRequest(vm, vf, et, rfs)
    /\ awaited = 0
    /\ awaitOut = [n |-> 0, out |-> None,
                   send |-> [raises |-> None, resp |-> NoResponse],
                   before |-> req]
    /\ validOut = [called |-> FALSE, raise_exceptions |-> FALSE, ret |-> None,
                   raised |-> NoException, before |-> req]

\* await request
Await ==
    /\ component = "request"
    /\ awaited < MaxAwaits
    /\ \E so \in SendOutcomes :
          LET res == Run(req, so, awaited + 1) IN
          /\ req' = res.r
          /\ awaitOut' = [n |-> awaited + 1, out |-> res.out, send |-> so,
                          before |-> req]
    /\ awaited' = awaited + 1
    /\ UNCHANGED <<component, utilityVars, cancelVars, validOut, taskVars, launchVars, analyticsVars, directoryVars, helperVars>>

\* request.is_valid(raise_exceptions)
IsValid ==
    /\ component = "request"
    /\ \E re \in BOOLEAN :
          LET res == is_valid(req, re) IN
          validOut' = [called |-> TRUE, raise_exceptions |-> re,
                       ret |-> res.ret, raised |-> res.raised,
                       before |-> req]
    /\ UNCHANGED <<component, utilityVars, cancelVars, req, awaited, awaitOut, taskVars, launchVars, analyticsVars, directoryVars, helperVars>>

NextRequest == Await \/ IsValid

----------------------------------------------------------------------------
(* Tasks and cancel_tasks *)

SessionHashes == {"s1", "s2"}
FnIndices == {0, 1}
\* Task 0 is the task that awaits cancel_tasks; the others come and go.
Caller == 0
TaskIds == 0 .. MaxTasks

\* The name asyncio gives a task that is not renamed.
DefaultName(t) == "Task-" \o ToString(t)

\* The name set_task_name gives: f"{session_hash}_{fn_index}"
TaskName(session_hash, fn_index) == session_hash \o "_" \o ToString(fn_index)

\* The task_ids the cancel function of get_cancel_function passes: the names
\* of one session hash with some function indices.
TaskIdSets ==
    {{TaskName(sh, fn) : fn \in fns} :
        sh \in SessionHashes, fns \in SUBSET FnIndices}

\* set_task_name(task, session_hash, fn_index, batch): the task's name after
\* the call, for a task named old before it.
set_task_name(old, session_hash, fn_index, batch) ==
    IF py38 /\ ~batch THEN TaskName(session_hash, fn_index) ELSE old

NoTask == [st |-> "absent", name |-> None, must_cancel |-> FALSE, creq |-> 0]

Done(tk) == tk.st \in {"finished", "failed", "cancelled"}

\* asyncio.all_tasks(): the tasks of the loop that are not done.
all_tasks(tks) == {t \in TaskIds : tks[t].st = "pending"}

\* The list comprehension of cancel_tasks.
matching_tasks(tks, task_ids) ==
    {t \in all_tasks(tks) : tks[t].name \in task_ids}

\* task.cancel() on every task of the set m, as cancel_tasks calls it: the
\* task is marked and creq counts the requests it got from cancel_tasks.
CancelAll(tks, m) ==
    [t \in TaskIds |->
        IF t \in m /\ ~Done(tks[t])
        THEN [tks[t] EXCEPT !.must_cancel = TRUE, !.creq = @ + 1]
        ELSE tks[t]]

Gather_RaisesFirst(tks, m) ==
    [ready  |-> (\A t \in m : Done(tks[t]))
                  \/ \E t \in m : tks[t].st \in {"failed", "cancelled"},
     raises |-> \E t \in m : tks[t].st \in {"failed", "cancelled"}]

\* asyncio.gather(*matching_tasks, return_exceptions=True): whether the
\* awaiting coroutine can resume, and whether it resumes with an exception
\* of one of the tasks.
Gather(tks, m) ==
    [ready  |-> \A t \in m : Done(tks[t]),
     raises |-> FALSE]

IdleCall == [pc |-> "idle", task_ids |-> {}, registry |-> {},
             matching |-> {}, raised |-> None, cause |-> None]

NewTask(name) ==
    [st |-> "pending", name |-> name, must_cancel |-> FALSE, creq |-> 0]

IdleTasks ==
    /\ py38 = TRUE
    /\ tasks = [t \in TaskIds |-> NoTask]
    /\ ct = IdleCall

\* The loop runs the task that will call cancel_tasks; like every task of an
\* event it was named by set_task_name.
StartTasks ==
    /\ py38 \in BOOLEAN
    /\ \E sh \in SessionHashes, fn \in FnIndices, batch \in BOOLEAN :
          tasks = [t \in TaskIds |->
                     IF t = Caller
                     THEN NewTask(set_task_name(DefaultName(t), sh, fn, batch))
                     ELSE NoTask]
    /\ ct = IdleCall

\* The loop is followed until the call of cancel_tasks has ended.
CallOpen == ct.pc \in {"idle", "gather"}

\* A task is created for an event of a session and named by set_task_name.
CreateTask ==
    /\ component = "tasks"
    /\ CallOpen
    /\ \E t \in TaskIds, sh \in SessionHashes, fn \in FnIndices,
          batch \in BOOLEAN :
          /\ tasks[t].st = "absent"
          /\ \A u \in TaskIds : u < t => tasks[u].st # "absent"
          /\ tasks' = [tasks EXCEPT ![t] =
                 NewTask(set_task_name(DefaultName(t), sh, fn, batch))]
    /\ UNCHANGED <<component, utilityVars, cancelVars, py38, ct, requestVars, launchVars, analyticsVars, directoryVars, helperVars>>

\* A task that is not being cancelled runs to its end: it returns or raises.
TaskEnds ==
    /\ component \in {"tasks", "cancel"}
    /\ CallOpen
    /\ \E t \in TaskIds, how \in {"finished", "failed"} :
          /\ tasks[t].st = "pending"
          /\ ~tasks[t].must_cancel
          /\ t # Caller
          /\ tasks' = [tasks EXCEPT ![t].st = how]
    /\ UNCHANGED <<component, utilityVars, cancelVars, py38, ct, requestVars, launchVars, analyticsVars, directoryVars, helperVars>>

\* The loop throws CancelledError into a task marked for cancellation: the
\* task lets it through (cancelled), or catches it and returns, raises
\* something else, or carries on.
TaskGetsCancelled ==
    /\ component \in {"tasks", "cancel"}
    /\ CallOpen
    /\ \E t \in TaskIds,
          how \in {"cancelled", "finished", "failed", "pending"} :
          /\ tasks[t].st = "pending"
          /\ tasks[t].must_cancel
          /\ t # Caller
          /\ tasks' = [tasks EXCEPT ![t].st = how, ![t].must_cancel = FALSE]
    /\ UNCHANGED <<component, utilityVars, cancelVars, py38, ct, requestVars, launchVars, analyticsVars, directoryVars, helperVars>>

\* await cancel_tasks(task_ids) in the calling task, up to the point where
\* it returns or suspends in gather.  When the calling task itself matches,
\* the gather future waits for the task that waits for it, and the cancel
\* request forwarded to it recurses: the call never resumes.
cancel_tasks(tks, c, ids) ==
    IF ~py38
    THEN [tasks |-> tks,
          ct |-> [c EXCEPT !.pc = "returned", !.task_ids = ids,
                           !.registry = all_tasks(tks)]]
    ELSE LET m == matching_tasks(tks, ids)
             c1 == [c EXCEPT !.task_ids = ids,
                             !.registry = all_tasks(tks),
                             !.matching = m]
             after == CancelAll(tks, m)
         IN  [tasks |-> after,
              ct |-> IF Caller \in m
                     THEN [c1 EXCEPT !.pc = "stuck"]
                     ELSE IF Gather(after, m).ready
                     THEN [c1 EXCEPT !.pc = "returned"]
                     ELSE [c1 EXCEPT !.pc = "gather"]]

CancelTasksCall ==
    /\ component = "tasks"
    /\ ct.pc = "idle"
    /\ \E ids \in TaskIdSets :
          /\ tasks' = cancel_tasks(tasks, ct, ids).tasks
          /\ ct' = cancel_tasks(tasks, ct, ids).ct
    /\ UNCHANGED <<component, utilityVars, cancelVars, py38, requestVars, launchVars, analyticsVars, directoryVars, helperVars>>

\* The gather future completes and cancel_tasks resumes.
CancelTasksResume ==
    /\ component \in {"tasks", "cancel"}
    /\ ct.pc = "gather"
    /\ Gather(tasks, ct.matching).ready
    /\ ct' = IF Gather(tasks, ct.matching).raises
             THEN [ct EXCEPT !.pc = "raised", !.raised = "Exception",
                             !.cause = "task"]
             ELSE [ct EXCEPT !.pc = "returned"]
    /\ UNCHANGED <<component, utilityVars, cancelVars, py38, tasks, requestVars, launchVars, analyticsVars, directoryVars, helperVars>>

\* The task awaiting in cancel_tasks is itself cancelled by someone else:
\* the gather future is cancelled, which cancels its children once more, and
\* CancelledError is raised at the await.
CallerCancelled ==
    /\ component = "tasks"
    /\ ct.pc = "gather"
    /\ tasks' = [t \in TaskIds |->
                    IF t \in ct.matching /\ ~Done(tasks[t])
                    THEN [tasks[t] EXCEPT !.must_cancel = TRUE]
                    ELSE tasks[t]]
    /\ ct' = [ct EXCEPT !.pc = "raised", !.raised = "CancelledError",
                        !.cause = "caller cancelled"]
    /\ UNCHANGED <<component, utilityVars, cancelVars, py38, requestVars, launchVars, analyticsVars, directoryVars, helperVars>>

NextTasks ==
    \/ CreateTask
    \/ TaskEnds
    \/ TaskGetsCancelled
    \/ CancelTasksCall
    \/ CancelTasksResume
    \/ CallerCancelled

----------------------------------------------------------------------------
(* set_task_name and get_cancel_function *)

\* A dependency is the dict of an event: its trigger and its output blocks.
\* The root block has two events, whose dicts are different or equal.
Click == [trigger |-> "click", outputs |-> <<1>>]
Change == [trigger |-> "change", outputs |-> <<2>>]
Roots == {<<Click, Change>>, <<Click, Click>>}

\* The dependencies given to get_cancel_function, as the positions (from 0)
\* of the given dicts in the root block's list.
GivenDependencies == {<<0>>, <<1>>, <<0, 1>>, <<1, 0>>}

\* next(i for i, d in enumerate(Context.root_block.dependencies) if d == dep)
IndexOf(deps, dep) ==
    (CHOOSE i \in 1 .. Len(deps) :
        /\ deps[i] = dep
        /\ \A j \in 1 .. i - 1 : deps[j] # dep) - 1

\* get_cancel_function(dependencies): the keys of fn_to_comp.
get_cancel_function(deps, dependencies) ==
    {IndexOf(deps, dependencies[k]) : k \in DOMAIN dependencies}

\* cancel(session_hash): set([f"{session_hash}_{fn}" for fn in fn_to_comp])
CancelTaskIds(session_hash, fn_to_comp) ==
    {TaskName(session_hash, fn) : fn \in fn_to_comp}

NotNamed == [called |-> FALSE, session_hash |-> "", fn_index |-> 0,
             batch |-> FALSE]
IdleCancelCall == [pc |-> "idle", given |-> {}, session_hash |-> "",
                   fn_indices |-> {}]

IdleCancel ==
    /\ root = <<>>
    /\ named = [t \in TaskIds |-> NotNamed]
    /\ cf = IdleCancelCall

\* The loop runs the task that will call the cancel function.
StartCancel ==
    /\ py38 \in BOOLEAN
    /\ root \in Roots
    /\ tasks = [t \in TaskIds |->
                  IF t = Caller THEN NewTask(DefaultName(t)) ELSE NoTask]
    /\ named = [t \in TaskIds |-> NotNamed]
    /\ ct = IdleCall
    /\ cf = IdleCancelCall

\* A task is created for an event of the root block and a session, and
\* set_task_name(task, session_hash, fn_index, batch) is called on it.
NameTask ==
    /\ component = "cancel"
    /\ ct.pc = "idle"
    /\ \E t \in TaskIds, sh \in SessionHashes, fn \in 0 .. Len(root) - 1,
          batch \in BOOLEAN :
          /\ tasks[t].st = "absent"
          /\ \A u \in TaskIds : u < t => tasks[u].st # "absent"
          /\ tasks' = [tasks EXCEPT ![t] =
                 NewTask(set_task_name(DefaultName(t), sh, fn, batch))]
          /\ named' = [named EXCEPT ![t] =
                 [called |-> TRUE, session_hash |-> sh, fn_index |-> fn,
                  batch |-> batch]]
    /\ UNCHANGED <<component, utilityVars, root, cf, py38, ct, requestVars,
                   launchVars, analyticsVars, directoryVars, helperVars>>

\* cancel, _ = get_cancel_function(dependencies); await cancel(session_hash)
\* in the calling task, up to the point where cancel_tasks returns or
\* suspends in gather.
CancelFunctionCall ==
    /\ component = "cancel"
    /\ ct.pc = "idle"
    /\ \E given \in GivenDependencies, sh \in SessionHashes :
          LET dependencies == [k \in DOMAIN given |-> root[given[k] + 1]]
              fn_to_comp == get_cancel_function(root, dependencies)
              task_ids == CancelTaskIds(sh, fn_to_comp)
              call == cancel_tasks(tasks, ct, task_ids)
          IN  /\ tasks' = call.tasks
              /\ ct' = call.ct
              /\ cf' = [pc |-> "called",
                        given |-> {given[k] : k \in DOMAIN given},
                        session_hash |-> sh, fn_indices |-> fn_to_comp]
    /\ UNCHANGED <<component, utilityVars, root, named, py38, requestVars,
                   launchVars, analyticsVars, directoryVars, helperVars>>

NextCancel ==
    \/ NameTask
    \/ TaskEnds
    \/ TaskGetsCancelled
    \/ CancelFunctionCall
    \/ CancelTasksResume

----------------------------------------------------------------------------
(* launch_counter *)

Procs == 1 .. MaxProcs

\* JSON text is a sequence of tokens; a number is written digit by digit.
DigitChars == <<"0", "1", "2", "3", "4", "5", "6", "7", "8", "9">>
IsDigit(c) == \E d \in 1 .. 10 : DigitChars[d] = c
DigitVal(c) == (CHOOSE d \in 1 .. 10 : DigitChars[d] = c) - 1

RECURSIVE Digits(_)
Digits(n) ==
    IF n < 10 THEN <<DigitChars[n + 1]>>
    ELSE Digits(n \div 10) \o <<DigitChars[(n % 10) + 1]>>

RECURSIVE ParseInt(_)
ParseInt(toks) ==
    IF Len(toks) = 1 THEN DigitVal(toks[1])
    ELSE ParseInt(SubSeq(toks, 1, Len(toks) - 1)) * 10
           + DigitVal(toks[Len(toks)])

\* Python values of the keys of the dictionary: an int, a str, or no entry.
IntVal(n) == [t |-> "int", n |-> n]
StrVal == [t |-> "str", n |-> 0]
Missing == [t |-> "missing", n |-> 0]

Keys == <<"launches", "version">>
KeyToken(k) == "\"" \o k \o "\""
StrToken == "\"x\""
EmptyDict == [k \in {"launches", "version"} |-> Missing]

ValueTokens(v) == IF v.t = "int" THEN Digits(v.n) ELSE <<StrToken>>

RECURSIVE MemberTokens(_, _, _)
MemberTokens(d, i, first) ==
    IF i > Len(Keys) THEN <<>>
    ELSE IF d[Keys[i]] = Missing THEN MemberTokens(d, i + 1, first)
    ELSE (IF first THEN <<>> ELSE <<",">>)
           \o <<KeyToken(Keys[i]), ":">> \o ValueTokens(d[Keys[i]])
           \o MemberTokens(d, i + 1, FALSE)

\* json.dumps / json.dump of a dictionary
json_dumps(d) == <<"{">> \o MemberTokens(d, 1, TRUE) \o <<"}">>

RECURSIVE DigitRun(_, _)
DigitRun(toks, i) ==
    IF i > Len(toks) \/ ~IsDigit(toks[i]) THEN 0
    ELSE 1 + DigitRun(toks, i + 1)

ParseError == [ok |-> FALSE, val |-> EmptyDict]

RECURSIVE ParseMembers(_, _)
ParseMembers(toks, d) ==
    IF Len(toks) < 3 \/ toks[2] # ":"
       \/ ~\E i \in 1 .. Len(Keys) : KeyToken(Keys[i]) = toks[1]
    THEN ParseError
    ELSE
      LET k    == Keys[CHOOSE i \in 1 .. Len(Keys) : KeyToken(Keys[i]) = toks[1]]
          vlen == IF toks[3] = StrToken THEN 1 ELSE DigitRun(toks, 3)
          v    == IF toks[3] = StrToken THEN StrVal
                  ELSE IntVal(ParseInt(SubSeq(toks, 3, 2 + vlen)))
          rest == SubSeq(toks, 3 + vlen, Len(toks))
      IN  IF vlen = 0 THEN ParseError
          ELSE IF rest = <<>> THEN [ok |-> TRUE, val |-> [d EXCEPT ![k] = v]]
          ELSE IF rest[1] = "," /\ Len(rest) > 1
          THEN ParseMembers(Tail(rest), [d EXCEPT ![k] = v])
          ELSE ParseError

\* json.load of the text of a file: the dictionary, or not ok when the text
\* is not JSON (JSONDecodeError).
json_load(text) ==
    IF Len(text) < 2 \/ text[1] # "{" \/ text[Len(text)] # "}"
    THEN ParseError
    ELSE IF Len(text) = 2 THEN [ok |-> TRUE, val |-> EmptyDict]
    ELSE ParseMembers(SubSeq(text, 2, Len(text) - 1), EmptyDict)

NoFile == [exists |-> FALSE, text |-> <<>>]
FileWith(text) == [exists |-> TRUE, text |-> text]

\* The counter file when the first call is made.
InitialFiles ==
    {NoFile, FileWith(<<>>), FileWith(<<"{", KeyToken("launches")>>)}
      \cup {FileWith(json_dumps(d)) : d \in
              {EmptyDict,
               [EmptyDict EXCEPT !["launches"] = StrVal],
               [EmptyDict EXCEPT !["launches"] = IntVal(9)],
               [EmptyDict EXCEPT !["launches"] = IntVal(24)],
               [EmptyDict EXCEPT !["launches"] = IntVal(1),
                                 !["version"] = IntVal(3)]}}

\* The launch counts at which the beta invite is printed.
InviteAt == {25, 50, 150, 500, 1000}

Increment_Forgotten(d) == d

\* launches["launches"] += 1, for a dictionary whose entry is a number
Increment(d) == [d EXCEPT !["launches"] = IntVal(@.n + 1)]

LaunchCatches_OnlyOSError(cls) == IsInstance(cls, "OSError")

\* The classes the bare except of launch_counter catches.
LaunchCatches(cls) == TRUE

IdleProc == [pc |-> "idle", launches |-> EmptyDict, out |-> None,
             failed |-> None, before |-> NoFile]

StartLaunch ==
    /\ file \in InitialFiles
    /\ procs = [p \in Procs |-> IdleProc]
    /\ lc = [calls |-> 0, completed |-> 0, failed |-> FALSE,
             started_absent |-> ~file.exists, printed |-> 0, last |-> 1,
             initial |-> file]

IdleLaunch ==
    /\ file = NoFile
    /\ procs = [p \in Procs |-> IdleProc]
    /\ lc = [calls |-> MaxCalls, completed |-> 0, failed |-> FALSE,
             started_absent |-> TRUE, printed |-> 0, last |-> 1,
             initial |-> NoFile]

\* The state of process p when its call ends: normally, or in the except
\* clause with an exception of class cls raised at the step named where.
CallEnds(pr, where, cls) ==
    [pr EXCEPT !.pc = "idle",
               !.failed = where,
               !.out = IF cls = None \/ LaunchCatches(cls)
                       THEN "returned" ELSE cls]

\* launch_counter() is called: os.path.exists(JSON_PATH)
LcExists(p) ==
    /\ component = "launch"
    /\ procs[p].pc = "idle"
    /\ lc.calls < MaxCalls
    /\ procs' = [procs EXCEPT ![p] =
           [IdleProc EXCEPT !.pc = IF file.exists THEN "read" ELSE "create",
                            !.before = file]]
    /\ lc' = [lc EXCEPT !.calls = @ + 1]
    /\ UNCHANGED <<component, utilityVars, cancelVars, file, requestVars, taskVars, analyticsVars, directoryVars, helperVars>>

\* The file does not exist: open(JSON_PATH, "w+") and json.dump.  Opening may
\* be refused, and the write may fail after the file was created empty.
LcCreate(p) ==
    /\ component = "launch"
    /\ procs[p].pc = "create"
    /\ \E io \in {"ok", "refused", "truncated"} :
          LET launches == [EmptyDict EXCEPT !["launches"] = IntVal(1)] IN
          /\ file' = CASE io = "ok" -> FileWith(json_dumps(launches))
                       [] io = "truncated" -> FileWith(<<>>)
                       [] OTHER -> file
          /\ procs' = [procs EXCEPT ![p] =
                 IF io = "ok" THEN CallEnds(procs[p], None, None)
                 ELSE CallEnds(procs[p], "write",
                               IF io = "refused" THEN "PermissionError"
                               ELSE "OSError")]
          /\ lc' = [lc EXCEPT !.completed = @ + 1, !.last = p,
                              !.failed = @ \/ io # "ok"]
    /\ UNCHANGED <<component, utilityVars, cancelVars, requestVars, taskVars, analyticsVars, directoryVars, helperVars>>

\* The file exists: open and json.load, launches["launches"] += 1, and the
\* invite is printed at some counts.  Opening may be refused or interrupted,
\* the text may not be JSON, the key may be missing or its value not a number.
LcRead(p) ==
    /\ component = "launch"
    /\ procs[p].pc = "read"
    /\ \E io \in {"ok", "PermissionError", "KeyboardInterrupt"} :
          LET parsed == json_load(file.text)
              v      == parsed.val["launches"]
              where  == IF io # "ok" \/ ~file.exists THEN "read"
                        ELSE IF ~parsed.ok THEN "parse"
                        ELSE IF v.t # "int" THEN "key"
                        ELSE None
              cls    == CASE where = "read" ->
                                 IF io = "ok" THEN "OSError" ELSE io
                          [] where = "parse" -> "JSONDecodeError"
                          [] where = "key" ->
                                 IF v.t = "missing" THEN "KeyError"
                                 ELSE "TypeError"
                          [] OTHER -> None
          IN  IF where # None
              THEN /\ procs' = [procs EXCEPT ![p] =
                                   CallEnds(procs[p], where, cls)]
                   /\ lc' = [lc EXCEPT !.completed = @ + 1, !.last = p,
                                       !.failed = TRUE]
              ELSE /\ procs' = [procs EXCEPT ![p].pc = "write",
                                   ![p].launches = Increment(parsed.val)]
                   /\ lc' = [lc EXCEPT !.printed =
                                 IF v.n + 1 \in InviteAt THEN @ + 1 ELSE @]
    /\ UNCHANGED <<component, utilityVars, cancelVars, file, requestVars, taskVars, analyticsVars, directoryVars, helperVars>>

\* open(JSON_PATH, "w") and write json.dumps(launches)
LcWrite(p) ==
    /\ component = "launch"
    /\ procs[p].pc = "write"
    /\ \E io \in {"ok", "refused", "truncated"} :
          /\ file' = CASE io = "ok" -> FileWith(json_dumps(procs[p].launches))
                       [] io = "truncated" -> FileWith(<<>>)
                       [] OTHER -> file
          /\ procs' = [procs EXCEPT ![p] =
                 IF io = "ok" THEN CallEnds(procs[p], None, None)
                 ELSE CallEnds(procs[p], "write",
                               IF io = "refused" THEN "PermissionError"
                               ELSE "OSError")]
          /\ lc' = [lc EXCEPT !.completed = @ + 1, !.last = p,
                              !.failed = @ \/ io # "ok"]
    /\ UNCHANGED <<component, utilityVars, cancelVars, requestVars, taskVars, analyticsVars, directoryVars, helperVars>>

\* No other process is inside launch_counter.
OthersIdle(p) == \A q \in Procs \ {p} : procs[q].pc = "idle"

\* The calls are made one after another.
NextLaunchSeq ==
    \/ \E p \in Procs : OthersIdle(p) /\ LcExists(p)
    \/ \E p \in Procs : OthersIdle(p) /\ LcCreate(p)
    \/ \E p \in Procs : OthersIdle(p) /\ LcRead(p)
    \/ \E p \in Procs : OthersIdle(p) /\ LcWrite(p)

\* The calls are made by different processes and their steps interleave:
\* nothing in launch_counter locks the file.
NextLaunch ==
    \/ \E p \in Procs : LcExists(p)
    \/ \E p \in Procs : LcCreate(p)
    \/ \E p \in Procs : LcRead(p)
    \/ \E p \in Procs : LcWrite(p)

----------------------------------------------------------------------------
(* Analytics *)

Endpoints == {"gradio-initiated-analytics/", "gradio-launched-analytics/",
              "gradio-integration-analytics/", "gradio-error-analytics/"}

\* What requests.post does: the ping arrives ("ok") or an exception of
\* requests.exceptions is raised.
PostOutcomes == {"ok", "requests.ConnectionError", "ConnectTimeout",
                 "ReadTimeout", "SSLError", "TooManyRedirects",
                 "ChunkedEncodingError"}

\* except (requests.ConnectionError, requests.exceptions.ReadTimeout)
AnalyticsCatches(cls) ==
    IsInstance(cls, "requests.ConnectionError") \/ IsInstance(cls, "ReadTimeout")

\* The body shared by the four analytics functions: what the caller gets when
\* requests.post has the outcome post.
SendAnalytics(post) ==
    IF post = "ok" \/ AnalyticsCatches(post) THEN "returned" ELSE post

NoPing == [fn |-> None, post |-> None, out |-> None]

StartAnalytics ==
    /\ received = [e \in Endpoints |-> 0]
    /\ ping = NoPing

IdleAnalytics ==
    /\ received = [e \in Endpoints |-> MaxPings]
    /\ ping = NoPing

Pings == received["gradio-initiated-analytics/"]
           + received["gradio-launched-analytics/"]
           + received["gradio-integration-analytics/"]
           + received["gradio-error-analytics/"]

\* One call of an analytics function fn that posts to endpoint e.
AnalyticsCall(fn, e) ==
    /\ component = "analytics"
    /\ Pings < MaxPings
    /\ \E post \in PostOutcomes :
          /\ ping' = [fn |-> fn, post |-> post, out |-> SendAnalytics(post)]
          /\ received' = IF post = "ok"
                         THEN [received EXCEPT ![e] = @ + 1]
                         ELSE received
    /\ UNCHANGED <<component, utilityVars, cancelVars, requestVars, taskVars, launchVars,
                   directoryVars, helperVars>>

initiated_analytics ==
    AnalyticsCall("initiated_analytics", "gradio-initiated-analytics/")
launch_analytics ==
    AnalyticsCall("launch_analytics", "gradio-launched-analytics/")
integration_analytics ==
    AnalyticsCall("integration_analytics", "gradio-integration-analytics/")
error_analytics ==
    AnalyticsCall("error_analytics", "gradio-error-analytics/")

NextAnalytics ==
    \/ initiated_analytics
    \/ launch_analytics
    \/ integration_analytics
    \/ error_analytics

----------------------------------------------------------------------------
(* set_directory *)

\* A directory is the sequence of the names on the way from the root.
ExistingDirs == {<<>>, <<"a">>, <<"a", "b">>, <<"c">>}

\* The arguments given to set_directory: absolute or relative paths.
Paths ==
    {[abs |-> TRUE, parts |-> <<"a">>],
     [abs |-> TRUE, parts |-> <<"c">>],
     [abs |-> TRUE, parts |-> <<"nowhere">>],
     [abs |-> FALSE, parts |-> <<"b">>],
     [abs |-> FALSE, parts |-> <<"..">>],
     [abs |-> FALSE, parts |-> <<"a", "b">>]}

RECURSIVE Walk(_, _)
Walk(dir, parts) ==
    IF parts = <<>> THEN dir
    ELSE IF parts[1] = ".."
    THEN Walk(IF dir = <<>> THEN dir ELSE SubSeq(dir, 1, Len(dir) - 1),
              Tail(parts))
    ELSE Walk(Append(dir, parts[1]), Tail(parts))

\* The directory os.chdir(path) goes to from the directory dir.
Resolve(dir, path) == Walk(IF path.abs THEN <<>> ELSE dir, path.parts)

\* os.chdir(path) from dir: the new working directory, and whether it raised.
chdir(dir, path) ==
    IF Resolve(dir, path) \in ExistingDirs
    THEN [cwd |-> Resolve(dir, path), raised |-> None]
    ELSE [cwd |-> dir, raised |-> "FileNotFoundError"]

AbsPath(dir) == [abs |-> TRUE, parts |-> dir]

LeaveDirectory_NoFinally(origin, cur, raised) ==
    IF raised = None THEN chdir(cur, AbsPath(origin)).cwd ELSE cur

\* The finally clause of set_directory: the working directory after it, when
\* the context is left from the directory cur, normally or by the exception
\* raised.
LeaveDirectory(origin, cur, raised) == chdir(cur, AbsPath(origin)).cwd

NoEvent == [kind |-> None, origin |-> <<>>, path |-> AbsPath(<<>>),
            cwd_before |-> <<>>, cwd_after |-> <<>>, thrown |-> None,
            raised |-> None]

StartDirectory ==
    /\ cwd \in ExistingDirs
    /\ frames = <<>>
    /\ sd = NoEvent

IdleDirectory ==
    /\ cwd = <<>>
    /\ frames = <<>>
    /\ sd = NoEvent

\* with set_directory(path): up to the yield.  origin is the working
\* directory on entry; when os.chdir(path) raises, the finally clause runs
\* and the exception reaches the caller, and no body is run.
EnterDirectory ==
    /\ component = "directory"
    /\ Len(frames) < MaxDepth
    /\ \E path \in Paths :
          LET origin == cwd
              go     == chdir(cwd, path)
          IN  IF go.raised = None
              THEN /\ cwd' = go.cwd
                   /\ frames' = Append(frames, [origin |-> origin,
                                                path |-> path])
                   /\ sd' = [kind |-> "entered", origin |-> origin,
                             path |-> path, cwd_before |-> cwd,
                             cwd_after |-> cwd', thrown |-> None,
                             raised |-> None]
              ELSE /\ cwd' = LeaveDirectory(origin, go.cwd, go.raised)
                   /\ frames' = frames
                   /\ sd' = [kind |-> "left", origin |-> origin,
                             path |-> path, cwd_before |-> cwd,
                             cwd_after |-> cwd', thrown |-> go.raised,
                             raised |-> go.raised]
    /\ UNCHANGED <<component, utilityVars, cancelVars, requestVars, taskVars, launchVars,
                   analyticsVars, helperVars>>

\* The body of the innermost context (or the program outside any context)
\* changes the working directory itself.
BodyChdir ==
    /\ component = "directory"
    /\ \E d \in ExistingDirs :
          /\ d # cwd
          /\ cwd' = d
    /\ UNCHANGED <<component, utilityVars, cancelVars, frames, sd, requestVars, taskVars, launchVars,
                   analyticsVars, helperVars>>

\* The body of the innermost context ends, normally or by raising: the
\* finally clause runs, and an exception of the body goes on to the caller.
LeaveContext ==
    /\ component = "directory"
    /\ frames # <<>>
    /\ \E thrown \in {None, "BodyError"} :
          LET f == frames[Len(frames)] IN
          /\ cwd' = LeaveDirectory(f.origin, cwd, thrown)
          /\ frames' = SubSeq(frames, 1, Len(frames) - 1)
          /\ sd' = [kind |-> "left", origin |-> f.origin, path |-> f.path,
                    cwd_before |-> cwd, cwd_after |-> cwd',
                    thrown |-> thrown, raised |-> thrown]
    /\ UNCHANGED <<component, utilityVars, cancelVars, requestVars, taskVars, launchVars,
                   analyticsVars, helperVars>>

NextDirectory == EnterDirectory \/ BodyChdir \/ LeaveContext

----------------------------------------------------------------------------
(* strip_invalid_filename_characters *)

\* The characters of the file names tried: for each, whether str.isalnum
\* holds and the number of bytes of its UTF-8 encoding.
Chars == {"a", ".", "/", "e-acute", "zhong", "euro", "math-1"}

isalnum(c) == c \in {"a", "e-acute", "zhong", "math-1"}

Utf8Width(c) ==
    CASE c \in {"a", ".", "/"} -> 1
      [] c = "e-acute"          -> 2
      [] c \in {"zhong", "euro"} -> 3
      [] OTHER                   -> 4

\* char.isalnum() or char in "._- "
KeepsChar(c) == isalnum(c) \/ c \in {".", "_", "-", " "}

RECURSIVE Utf8Len(_)
Utf8Len(str) ==
    IF str = <<>> THEN 0 ELSE Utf8Width(str[1]) + Utf8Len(Tail(str))

RECURSIVE StringsUpTo(_)
StringsUpTo(n) ==
    IF n = 0 THEN {<<>>}
    ELSE LET shorter == StringsUpTo(n - 1) IN
         shorter \cup {Append(str, c) : str \in shorter, c \in Chars}

encoded_len_CountsChars(str) == Len(str)

\* len(filename.encode())
encoded_len(str) == Utf8Len(str)

\* "".join([char for char in filename if ...])
StripChars(str) == SelectSeq(str, KeepsChar)

IdleStrip == [pc |-> "off", arg |-> <<>>, max_bytes |-> 0, filename |-> <<>>,
              filename_len |-> 0, iterations |-> 0]

StartHelpers ==
    /\ sf = [IdleStrip EXCEPT !.pc = "start"]
    /\ us = [pc |-> "start", name |-> "", list_of_names |-> <<>>,
             names |-> {}, suffix_counter |-> 0, new_name |-> ""]

IdleHelpers ==
    /\ sf = IdleStrip
    /\ us = [pc |-> "off", name |-> "", list_of_names |-> <<>>,
             names |-> {}, suffix_counter |-> 0, new_name |-> ""]

\* strip_invalid_filename_characters(filename, max_bytes) is called: the
\* characters are filtered and the length in bytes is taken.
StripCall ==
    /\ component = "helpers"
    /\ sf.pc = "start"
    /\ \E str \in StringsUpTo(MaxLen), mb \in -1 .. MaxBudget :
          LET filename == StripChars(str) IN
          sf' = [pc |-> IF encoded_len(filename) > mb THEN "loop" ELSE "done",
                 arg |-> str, max_bytes |-> mb, filename |-> filename,
                 filename_len |-> encoded_len(filename), iterations |-> 0]
    /\ UNCHANGED <<component, utilityVars, cancelVars, us, requestVars, taskVars, launchVars,
                   analyticsVars, directoryVars>>

\* One round of the while loop: leave when the name fits or is empty,
\* otherwise drop the last character and measure again.
StripLoop ==
    /\ component = "helpers"
    /\ sf.pc = "loop"
    /\ sf' = IF ~(sf.filename_len > sf.max_bytes) \/ Len(sf.filename) = 0
             THEN [sf EXCEPT !.pc = "done"]
             ELSE LET filename == SubSeq(sf.filename, 1, Len(sf.filename) - 1)
                  IN  [sf EXCEPT !.filename = filename,
                                 !.filename_len = encoded_len(filename),
                                 !.iterations = @ + 1]
    /\ UNCHANGED <<component, utilityVars, cancelVars, us, requestVars, taskVars, launchVars,
                   analyticsVars, directoryVars>>

----------------------------------------------------------------------------
(* append_unique_suffix *)

\* The names tried as name and as members of list_of_names.
NameUniverse == {"a", "b", "a_1", "a_2", "a_3", "a_1_1"}

RECURSIVE ListsUpTo(_)
ListsUpTo(n) ==
    IF n = 0 THEN {<<>>}
    ELSE LET shorter == ListsUpTo(n - 1) IN
         shorter \cup {Append(l, x) : l \in shorter, x \in NameUniverse}

\* set(list_of_names)
SetOf(list) == {list[i] : i \in 1 .. Len(list)}

WithSuffix_NoSeparator(name, suffix_counter) ==
    name \o ToString(suffix_counter)

\* name + f"_{suffix_counter}"
WithSuffix(name, suffix_counter) == name \o "_" \o ToString(suffix_counter)

\* append_unique_suffix(name, list_of_names) is called: up to the first test
\* of the while loop.
SuffixCall ==
    /\ component = "helpers"
    /\ us.pc = "start"
    /\ \E name \in {"a", "a_1", "b"}, list \in ListsUpTo(MaxNames) :
          LET names == SetOf(list) IN
          us' = IF name \notin names
                THEN [pc |-> "done", name |-> name, list_of_names |-> list,
                      names |-> names, suffix_counter |-> 0,
                      new_name |-> name]
                ELSE [pc |-> "loop", name |-> name, list_of_names |-> list,
                      names |-> names, suffix_counter |-> 1,
                      new_name |-> WithSuffix(name, 1)]
    /\ UNCHANGED <<component, utilityVars, cancelVars, sf, requestVars, taskVars, launchVars,
                   analyticsVars, directoryVars>>

\* One test of the while loop: return new_name when it is free, otherwise
\* count on.
SuffixLoop ==
    /\ component = "helpers"
    /\ us.pc = "loop"
    /\ us' = IF us.new_name \in us.names
             THEN [us EXCEPT !.suffix_counter = @ + 1,
                             !.new_name = WithSuffix(us.name,
                                                     us.suffix_counter + 1)]
             ELSE [us EXCEPT !.pc = "done"]
    /\ UNCHANGED <<component, utilityVars, cancelVars, sf, requestVars, taskVars, launchVars,
                   analyticsVars, directoryVars>>

NextStrip == StripCall \/ StripLoop
NextSuffix == SuffixCall \/ SuffixLoop

----------------------------------------------------------------------------
(* sanitize_value_for_csv *)

\* The characters of the strings tried: the six unsafe ones, the comma, the
\* quote the function adds, and a letter.  A string is the sequence of its
\* characters; a value is a number or a string.
CsvChars == {"=", "+", "-", "@", "\t", "\n", ",", "'", "a"}
CsvNumbers == {-1, 0, 7}

RECURSIVE CsvStringsUpTo(_)
CsvStringsUpTo(n) ==
    IF n = 0 THEN {<<>>}
    ELSE LET shorter == CsvStringsUpTo(n - 1) IN
         shorter \cup {Append(str, c) : str \in shorter, c \in CsvChars}

Number(n) == [kind |-> "number", number |-> n, str |-> <<>>]
Str(chars) == [kind |-> "str", number |-> 0, str |-> chars]

\* unsafe_prefixes = ["=", "+", "-", "@", "\t", "\n"]
unsafe_prefixes == << <<"=">>, <<"+">>, <<"-">>, <<"@">>, <<"\t">>, <<"\n">> >>

\* unsafe_sequences = [",=", ",+", ",-", ",@", ",\t", ",\n"]
unsafe_sequences ==
    << <<",", "=">>, <<",", "+">>, <<",", "-">>, <<",", "@">>,
       <<",", "\t">>, <<",", "\n">> >>

\* value.startswith(prefix)
startswith(value, prefix) ==
    /\ Len(prefix) <= Len(value)
    /\ SubSeq(value, 1, Len(prefix)) = prefix

\* sequence in value
Contains(value, sequence) ==
    \E i \in 1 .. Len(value) - Len(sequence) + 1 :
        SubSeq(value, i, i + Len(sequence) - 1) = sequence

IsUnsafe_PrefixesOnly(value) ==
    \E k \in DOMAIN unsafe_prefixes : startswith(value, unsafe_prefixes[k])

\* any(value.startswith(prefix) ...) or any(sequence in value ...)
IsUnsafe(value) ==
    \/ \E k \in DOMAIN unsafe_prefixes : startswith(value, unsafe_prefixes[k])
    \/ \E k \in DOMAIN unsafe_sequences : Contains(value, unsafe_sequences[k])

sanitize_value_for_csv(value) ==
    IF value.kind = "number" THEN value
    ELSE IF IsUnsafe(value.str) THEN Str(<<"'">> \o value.str)
    ELSE value

IdleCsv == csv = [pc |-> "off", value |-> Number(0), result |-> Number(0)]
StartCsv == csv = [pc |-> "start", value |-> Number(0), result |-> Number(0)]

\* sanitize_value_for_csv(value) is called with a number or a string.
SanitizeCall ==
    /\ component = "csv"
    /\ csv.pc = "start"
    /\ \E value \in {Number(n) : n \in CsvNumbers}
                      \cup {Str(chars) : chars \in CsvStringsUpTo(MaxCsvLen)} :
          csv' = [pc |-> "done", value |-> value,
                  result |-> sanitize_value_for_csv(value)]
    /\ UNCHANGED <<component, cmp, cancelVars, requestVars, taskVars,
                   launchVars, analyticsVars, directoryVars, helperVars>>

NextCsv == SanitizeCall

----------------------------------------------------------------------------
(* assert_configs_are_equivalent_besides_ids *)

\* A config is a dict with the root keys, the list of components (an id and
\* the properties, here the type), the layout tree and the dependencies.  A
\* layout node has an id and may have the key "children"; a dependency has
\* the keys targets, inputs, outputs (lists of component ids) and trigger.
ComponentTypes == {"textbox", "button"}
Component(id, type) == [id |-> id, type |-> type]
Leaf(id) == [id |-> id, has_children |-> FALSE, children |-> <<>>]
Node(id, children) == [id |-> id, has_children |-> TRUE, children |-> children]
DependencyKeys == {"targets", "inputs", "outputs", "trigger"}
Dependency(targets, inputs, outputs, trigger) ==
    [keys |-> DependencyKeys, targets |-> targets, inputs |-> inputs,
     outputs |-> outputs, trigger |-> trigger]

\* The layouts tried for components 1 .. k: all at the top, all below the
\* first, and each below the one before.
Flat(k) == [i \in 1 .. k |-> Leaf(i)]
Nested(k) == << Node(1, [i \in 1 .. k - 1 |-> Leaf(i + 1)]) >>
RECURSIVE ChainFrom(_, _)
ChainFrom(i, k) ==
    IF i = k THEN << Leaf(k) >> ELSE << Node(i, ChainFrom(i + 1, k)) >>
Layouts(k) == {Flat(k), Nested(k), ChainFrom(1, k)}

DepChoices(k) ==
    {Dependency(<<1>>, <<k>>, <<1, k>>, "click"),
     Dependency(<<k>>, <<>>, <<1>>, "change")}

RECURSIVE DepListsUpTo(_, _)
DepListsUpTo(n, k) ==
    IF n = 0 THEN {<<>>}
    ELSE LET shorter == DepListsUpTo(n - 1, k) IN
         shorter \cup {Append(l, d) : l \in shorter, d \in DepChoices(k)}

\* The well-formed configs tried: every component has its own id, is in the
\* layout once, and the dependencies name components of the config.
Configs ==
    UNION {
        {[mode |-> "blocks", theme |-> "default",
          components |-> [i \in 1 .. k |-> Component(i, types[i])],
          layout |-> [children |-> children],
          dependencies |-> deps] :
            types \in [1 .. k -> ComponentTypes],
            children \in Layouts(k),
            deps \in DepListsUpTo(MaxDeps, k)} :
        k \in 1 .. MaxComponents}

\* The injective renumberings tried, as functions on 1 .. MaxComponents + 1:
\* the identity, a shift, and the reversal.
IdRange == 1 .. MaxComponents + 1
Renumberings ==
    {[i \in IdRange |-> i], [i \in IdRange |-> i + 10],
     [i \in IdRange |-> MaxComponents + 2 - i]}

RenumberIds(ids, r) == [i \in 1 .. Len(ids) |-> r[ids[i]]]
RECURSIVE RenumberChildren(_, _)
RenumberChildren(children, r) ==
    [i \in 1 .. Len(children) |->
        [id |-> r[children[i].id],
         has_children |-> children[i].has_children,
         children |-> RenumberChildren(children[i].children, r)]]
Renumber(config, r) ==
    [config EXCEPT
        !.components = [i \in 1 .. Len(@) |-> [@[i] EXCEPT !.id = r[@]]],
        !.layout = [children |-> RenumberChildren(@.children, r)],
        !.dependencies =
            [i \in 1 .. Len(@) |->
                [@[i] EXCEPT !.targets = RenumberIds(@, r),
                             !.inputs = RenumberIds(@, r),
                             !.outputs = RenumberIds(@, r)]]]

\* The ways the second config is made to differ from the first.
Differences ==
    {"none", "mode", "properties", "extra_component", "move_child",
     "extra_dependency", "extra_target", "extra_input", "extra_output",
     "trigger"}

\* The last top-level child is moved below the first one (or, when there is
\* one top-level child, its last child is moved to the top level).
MoveChild(children) ==
    LET n == Len(children) IN
    IF n >= 2
    THEN << Node(children[1].id,
                 Append(children[1].children, children[n])) >>
         \o SubSeq(children, 2, n - 1)
    ELSE IF Len(children[1].children) >= 1
    THEN LET below == children[1].children IN
         << Node(children[1].id, SubSeq(below, 1, Len(below) - 1)),
            below[Len(below)] >>
    ELSE children

Differ(config, how) ==
    LET k == Len(config.components)
        deps == config.dependencies
        flip(type) == IF type = "textbox" THEN "button" ELSE "textbox"
    IN
    CASE how = "none" -> config
      [] how = "mode" -> [config EXCEPT !.mode = "interface"]
      [] how = "properties" ->
            [config EXCEPT !.components[1].type = flip(@)]
      [] how = "extra_component" ->
            [config EXCEPT
                !.components = Append(@, Component(k + 1, "button")),
                !.layout.children = Append(@, Leaf(k + 1))]
      [] how = "move_child" ->
            [config EXCEPT !.layout.children = MoveChild(@)]
      [] how = "extra_dependency" ->
            [config EXCEPT
                !.dependencies =
                    Append(@, Dependency(<<1>>, <<>>, <<1>>, "submit"))]
      [] how = "extra_target" /\ deps # <<>> ->
            [config EXCEPT !.dependencies[1].targets = Append(@, 1)]
      [] how = "extra_input" /\ deps # <<>> ->
            [config EXCEPT !.dependencies[1].inputs = Append(@, 1)]
      [] how = "extra_output" /\ deps # <<>> ->
            [config EXCEPT !.dependencies[1].outputs = Append(@, 1)]
      [] how = "trigger" /\ deps # <<>> ->
            [config EXCEPT !.dependencies[1].trigger = "blur"]
      [] OTHER -> config

deepcopy_SameObject(obj) == [value |-> obj, same_object |-> TRUE]

\* copy.deepcopy(obj): a new object with equal contents.
deepcopy(obj) == [value |-> obj, same_object |-> FALSE]

\* What the caller's object holds once the function's object has changed.
CallerSees(original, object) ==
    IF object.same_object THEN object.value ELSE original

\* root_keys=("mode", "theme")
root_keys == <<"mode", "theme">>

\* c.pop("id")
WithoutId(c) == [type |-> c.type]

\* d.pop(key): the key leaves the dict.
pop(d, key) == [d EXCEPT !.keys = @ \ {key}, ![key] = <<>>]

\* assert_same_components(config1_id, config2_id): "ok" or the exception.
assert_same_components(config1, config2, config1_id, config2_id) ==
    LET Is1(c) == c.id = config1_id
        Is2(c) == c.id = config2_id
        found1 == SelectSeq(config1.components, Is1)
        found2 == SelectSeq(config2.components, Is2)
    IN  IF found1 = <<>> \/ found2 = <<>> THEN "IndexError"
        ELSE IF WithoutId(found1[1]) = WithoutId(found2[1]) THEN "ok"
        ELSE "AssertionError"

\* same_children_recursive(children1, chidren2): zip stops with the shorter
\* list; child["children"] of a child without the key is a KeyError.
RECURSIVE same_children_recursive(_, _, _, _)
same_children_recursive(config1, config2, children1, chidren2) ==
    IF children1 = <<>> \/ chidren2 = <<>> THEN "ok"
    ELSE LET child1 == Head(children1)
             child2 == Head(chidren2)
             same == assert_same_components(config1, config2,
                                            child1.id, child2.id)
             below ==
                IF child1.has_children \/ child2.has_children
                THEN IF ~child1.has_children \/ ~child2.has_children
                     THEN "KeyError"
                     ELSE same_children_recursive(config1, config2,
                              child1.children, child2.children)
                ELSE "ok"
         IN  IF same # "ok" THEN same
             ELSE IF below # "ok" THEN below
             ELSE same_children_recursive(config1, config2,
                      Tail(children1), Tail(chidren2))

\* for t1, t2 in zip(ids1, ids2): assert_same_components(t1, t2)
RECURSIVE SameIds(_, _, _, _)
SameIds(config1, config2, ids1, ids2) ==
    IF ids1 = <<>> \/ ids2 = <<>> THEN "ok"
    ELSE LET same == assert_same_components(config1, config2,
                                            Head(ids1), Head(ids2))
         IN  IF same # "ok" THEN same
             ELSE SameIds(config1, config2, Tail(ids1), Tail(ids2))

\* One round of the loop over zip(dependencies1, dependencies2): the three
\* lists are popped and compared in turn, then what is left is compared.
SameDependency(config1, config2, d1, d2) ==
    LET t1 == pop(d1, "targets")
        t2 == pop(d2, "targets")
        i1 == pop(t1, "inputs")
        i2 == pop(t2, "inputs")
        o1 == pop(i1, "outputs")
        o2 == pop(i2, "outputs")
        targets == SameIds(config1, config2, d1.targets, d2.targets)
        inputs == SameIds(config1, config2, d1.inputs, d2.inputs)
        outputs == SameIds(config1, config2, d1.outputs, d2.outputs)
    IN  IF targets # "ok" THEN [out |-> targets, d1 |-> t1, d2 |-> t2]
        ELSE IF inputs # "ok" THEN [out |-> inputs, d1 |-> i1, d2 |-> i2]
        ELSE IF outputs # "ok" THEN [out |-> outputs, d1 |-> o1, d2 |-> o2]
        ELSE [out |-> IF o1 = o2 THEN "ok" ELSE "AssertionError",
              d1 |-> o1, d2 |-> o2]

\* The loop over the dependencies from the j-th pair on; gives the outcome
\* and the two lists of dependencies as the loop leaves them.
RECURSIVE SameDependencies(_, _, _, _, _)
SameDependencies(config1, config2, deps1, deps2, j) ==
    IF j > Len(deps1) \/ j > Len(deps2)
    THEN [out |-> "ok", deps1 |-> deps1, deps2 |-> deps2]
    ELSE LET round == SameDependency(config1, config2, deps1[j], deps2[j])
             after1 == [deps1 EXCEPT ![j] = round.d1]
             after2 == [deps2 EXCEPT ![j] = round.d2]
         IN  IF round.out # "ok"
             THEN [out |-> round.out, deps1 |-> after1, deps2 |-> after2]
             ELSE SameDependencies(config1, config2, after1, after2, j + 1)

\* assert_configs_are_equivalent_besides_ids(config1, config2): what it
\* returns or raises, and the caller's two dicts after the call.
assert_configs_are_equivalent_besides_ids(config1, config2) ==
    LET copy1 == deepcopy(config1)
        copy2 == deepcopy(config2)
        c1 == copy1.value
        c2 == copy2.value
        roots == IF \A k \in DOMAIN root_keys :
                        c1[root_keys[k]] = c2[root_keys[k]]
                 THEN "ok" ELSE "AssertionError"
        count == IF Len(c1.components) = Len(c2.components)
                 THEN "ok" ELSE "AssertionError"
        layout == same_children_recursive(c1, c2, c1.layout.children,
                                          c2.layout.children)
        deps == SameDependencies(c1, c2, c1.dependencies,
                                 c2.dependencies, 1)
        early == IF roots # "ok" THEN roots
                 ELSE IF count # "ok" THEN count
                 ELSE layout
        after1 == IF early # "ok" THEN c1
                  ELSE [c1 EXCEPT !.dependencies = deps.deps1]
        after2 == IF early # "ok" THEN c2
                  ELSE [c2 EXCEPT !.dependencies = deps.deps2]
    IN  [out |-> IF early # "ok" THEN early
                 ELSE IF deps.out # "ok" THEN deps.out
                 ELSE "True",
         config1 |-> CallerSees(config1,
                                [copy1 EXCEPT !.value = after1]),
         config2 |-> CallerSees(config2,
                                [copy2 EXCEPT !.value = after2])]

EmptyConfig ==
    [mode |-> "", theme |-> "", components |-> <<>>,
     layout |-> [children |-> <<>>], dependencies |-> <<>>]
IdleConfigs ==
    cmp = [pc |-> "off", config1 |-> EmptyConfig, config2 |-> EmptyConfig,
           r |-> <<>>, out |-> "", after1 |-> EmptyConfig,
           after2 |-> EmptyConfig]
StartConfigs ==
    cmp = [pc |-> "start", config1 |-> EmptyConfig, config2 |-> EmptyConfig,
           r |-> <<>>, out |-> "", after1 |-> EmptyConfig,
           after2 |-> EmptyConfig]

\* assert_configs_are_equivalent_besides_ids(config1, config2) is called
\* with a config and a renumbering of it, or of a config that differs.
CompareConfigs ==
    /\ component = "configs"
    /\ cmp.pc = "start"
    /\ \E config \in Configs, how \in Differences, r \in Renumberings :
          LET config2 == Renumber(Differ(config, how), r)
              call == assert_configs_are_equivalent_besides_ids(config,
                                                                config2)
          IN  cmp' = [pc |-> "done", config1 |-> config,
                      config2 |-> config2, r |-> r, out |-> call.out,
                      after1 |-> call.config1, after2 |-> call.config2]
    /\ UNCHANGED <<component, csv, cancelVars, requestVars, taskVars,
                   launchVars, analyticsVars, directoryVars, helperVars>>

NextConfigs == CompareConfigs

----------------------------------------------------------------------------
(* Specifications *)

InitRequest ==
    /\ component = "request"
    /\ StartRequest /\ IdleTasks /\ IdleLaunch /\ IdleAnalytics
    /\ IdleDirectory /\ IdleHelpers /\ IdleCsv
    /\ IdleConfigs /\ IdleCancel
InitTasks ==
    /\ component = "tasks"
    /\ IdleRequest /\ StartTasks /\ IdleLaunch /\ IdleAnalytics
    /\ IdleDirectory /\ IdleHelpers /\ IdleCsv
    /\ IdleConfigs /\ IdleCancel
InitLaunch ==
    /\ component = "launch"
    /\ IdleRequest /\ IdleTasks /\ StartLaunch /\ IdleAnalytics
    /\ IdleDirectory /\ IdleHelpers /\ IdleCsv
    /\ IdleConfigs /\ IdleCancel
InitAnalytics ==
    /\ component = "analytics"
    /\ IdleRequest /\ IdleTasks /\ IdleLaunch /\ StartAnalytics
    /\ IdleDirectory /\ IdleHelpers /\ IdleCsv
    /\ IdleConfigs /\ IdleCancel
InitDirectory ==
    /\ component = "directory"
    /\ IdleRequest /\ IdleTasks /\ IdleLaunch /\ IdleAnalytics
    /\ StartDirectory /\ IdleHelpers /\ IdleCsv
    /\ IdleConfigs /\ IdleCancel
InitHelpers ==
    /\ component = "helpers"
    /\ IdleRequest /\ IdleTasks /\ IdleLaunch /\ IdleAnalytics
    /\ IdleDirectory /\ StartHelpers /\ IdleCsv
    /\ IdleConfigs /\ IdleCancel
InitCsv ==
    /\ component = "csv"
    /\ IdleRequest /\ IdleTasks /\ IdleLaunch /\ IdleAnalytics
    /\ IdleDirectory /\ IdleHelpers /\ StartCsv
    /\ IdleConfigs /\ IdleCancel
InitConfigs ==
    /\ component = "configs"
    /\ IdleRequest /\ IdleTasks /\ IdleLaunch /\ IdleAnalytics
    /\ IdleDirectory /\ IdleHelpers /\ IdleCsv
    /\ StartConfigs /\ IdleCancel
InitCancel ==
    /\ component = "cancel"
    /\ IdleRequest /\ StartCancel /\ IdleLaunch /\ IdleAnalytics
    /\ IdleDirectory /\ IdleHelpers /\ IdleCsv
    /\ IdleConfigs

Init ==
    \/ InitRequest
    \/ InitTasks
    \/ InitLaunch
    \/ InitAnalytics
    \/ InitDirectory
    \/ InitHelpers
    \/ InitCsv
    \/ InitConfigs
    \/ InitCancel

Next ==
    \/ NextRequest
    \/ NextTasks
    \/ NextLaunchSeq
    \/ NextLaunch
    \/ NextAnalytics
    \/ NextDirectory
    \/ NextStrip
    \/ NextSuffix
    \/ NextCsv
    \/ NextConfigs
    \/ NextCancel

Spec == Init /\ [][Next]_vars
SpecRequest == InitRequest /\ [][NextRequest]_vars
SpecTasks == InitTasks /\ [][NextTasks]_vars
SpecLaunchSeq == InitLaunch /\ [][NextLaunchSeq]_vars
SpecLaunch == InitLaunch /\ [][NextLaunch]_vars
SpecAnalytics == InitAnalytics /\ [][NextAnalytics]_vars
SpecDirectory == InitDirectory /\ [][NextDirectory]_vars
SpecStrip == InitHelpers /\ [][NextStrip]_vars
SpecSuffix == InitHelpers /\ [][NextSuffix]_vars
SpecCsv == InitCsv /\ [][NextCsv]_vars
SpecConfigs == InitConfigs /\ [][NextConfigs]_vars
SpecCancel == InitCancel /\ [][NextCancel]_vars

----------------------------------------------------------------------------
(* Properties of AsyncRequest *)

\* The class of the exception raised by the first step of an await that
\* fails (send, status check, JSON parsing, validation by model, validation
\* by function), for a request r and a send outcome so; None if no step fails.
FirstFailure(r, so) ==
    IF so.raises # None THEN so.raises
    ELSE IF r.raise_for_status /\ so.resp.status_code = "404"
    THEN "HTTPStatusError"
    ELSE IF so.resp.body[1] # "json" THEN "JSONDecodeError"
    ELSE IF r.validation_model = "ModelOnly1" /\ so.resp.body[2] # 1
    THEN "ValidationError"
    ELSE IF r.validation_function = "FnRaise" THEN "ValueError"
    ELSE IF r.validation_function = "FnExit" THEN "SystemExit"
    ELSE None

\* The failure of the last await came from a validation step.
FailedInValidation(r, so) ==
    FirstFailure(r, so) \in {"ValidationError", "ValueError", "SystemExit"}

\* C1 as stated: an await always completes normally and returns the request
\* itself, with has_exception True exactly when one of its steps failed.
C1_NeverPropagates ==
    awaited > 0 =>
        /\ awaitOut.out = "self"
        /\ has_exception(req)
              <=> FirstFailure(awaitOut.before, awaitOut.send) # None

\* C1 amended: a failure that is an instance of Exception is caught and
\* stored, the await returns the request itself and has_exception is True
\* afterwards, provided that for a failure before validation exception_type
\* can be called with the exception as its only argument; when no step fails
\* the await returns the request itself and the stored exception is what it
\* was before the await, so has_exception is False on a request that had
\* none.  A failure that is not an instance of Exception propagates, and so
\* does the TypeError of an exception_type that cannot be called so.
C1_ExceptionsStored ==
    awaited > 0 =>
        LET b == awaitOut.before
            f == FirstFailure(b, awaitOut.send)
        IN  /\ f = None =>
                  /\ awaitOut.out = "self"
                  /\ req.exception = b.exception
                  /\ ~has_exception(b) => ~has_exception(req)
            /\ (/\ f # None
                /\ IsInstance(f, "Exception")
                /\ FailedInValidation(b, awaitOut.send)
                      \/ ~CtorRaises(b.exception_type)) =>
                  /\ awaitOut.out = "self"
                  /\ has_exception(req)
            /\ (f # None /\ ~IsInstance(f, "Exception")) =>
                  awaitOut.out = f
            /\ (/\ f # None
                /\ IsInstance(f, "Exception")
                /\ ~FailedInValidation(b, awaitOut.send)
                /\ CtorRaises(b.exception_type)) =>
                  awaitOut.out = "TypeError"

\* Witness of C1: a failed send was caught and stored by the await.
C1_Witness ==
    /\ awaited > 0
    /\ awaitOut.send.raises = "ConnectError"
    /\ awaitOut.out = "self"
    /\ has_exception(req)

\* C2: is_valid() returns False exactly when an exception is stored and True
\* otherwise and raises nothing; is_valid(raise_exceptions=True) raises the
\* stored exception object when there is one and returns True otherwise;
\* the call leaves the request (exception, status, validated data) as it was.
C2_IsValid ==
    [][validOut' # validOut =>
          /\ req' = req
          /\ validOut'.before = req
          /\ ~validOut'.raise_exceptions =>
                /\ validOut'.raised = NoException
                /\ validOut'.ret = "False" <=> req.exception # NoException
                /\ validOut'.ret = "True" <=> req.exception = NoException
          /\ validOut'.raise_exceptions =>
                IF req.exception # NoException
                THEN validOut'.raised = req.exception /\ validOut'.ret = None
                ELSE validOut'.raised = NoException /\ validOut'.ret = "True"
    ]_vars

\* Witness of C2: is_valid(raise_exceptions=True) was called on an awaited
\* request holding an exception, and raised it.
C2_Witness ==
    /\ validOut.called
    /\ validOut.raise_exceptions
    /\ awaited > 0
    /\ validOut.before = req
    /\ req.exception # NoException
    /\ validOut.raised = req.exception

\* C3 as stated: a stored exception is always an instance of the
\* exception_type given to the constructor, whichever step failed.
C3_StoredIsExceptionType ==
    (awaited > 0 /\ req.exception # NoException) =>
        IsInstance(req.exception.cls, req.exception_type)

\* The parsed JSON body of the response of the last await.
RawBody(so) == <<"raw", so.resp.body[2]>>

\* What the validation steps configured on r make of the parsed body when
\* each gets the output of the one before.
ExpectedData(r, so) ==
    LET afterModel == IF r.validation_model # None
                      THEN <<"model", RawBody(so)>> ELSE RawBody(so)
    IN  IF r.validation_function # None
        THEN <<"fn", afterModel>> ELSE afterModel

\* C14: in an await where no step fails the steps run in the order send,
\* record status, status check (if raise_for_status), JSON parse, validation
\* by model, validation by function: the function gets the model's output,
\* and get_validated_data() is the output of the last configured validation
\* step, or the parsed body when none is configured.  The status is recorded
\* before the status check: it is the response's code whenever a response
\* arrived, also when the status check fails (and then the body is not
\* parsed), and it is None only when sending failed.
C14_StepsInOrder ==
    awaited > 0 =>
        LET b == awaitOut.before
            so == awaitOut.send
            f == FirstFailure(b, so)
        IN  /\ f = None =>
                  /\ awaitOut.out = "self"
                  /\ req.response = so.resp
                  /\ req.status = so.resp.status_code
                  /\ req.json_response_data = RawBody(so)
                  /\ req.validated_data = ExpectedData(b, so)
            /\ so.raises = None => req.status = so.resp.status_code
            /\ (so.raises = None /\ b.raise_for_status
                  /\ so.resp.status_code = "404") =>
                  /\ req.json_response_data = b.json_response_data
                  /\ req.validated_data = b.validated_data
                  /\ ~CtorRaises(b.exception_type) =>
                        req.exception.arg = "HTTPStatusError"
            /\ req.status = None => so.raises # None

\* Witness of C14: an await with both validation steps configured succeeded
\* and the data is the function's output of the model's output of the body.
C14_Witness ==
    /\ awaited > 0
    /\ FirstFailure(awaitOut.before, awaitOut.send) = None
    /\ req.validation_model # None
    /\ req.validation_function # None
    /\ req.status = "200"
    /\ req.validated_data = <<"fn", <<"model", <<"raw", 1>>>>>>

\* C15 as stated: whenever a validation step (model or function) raises in
\* an await, get_validated_data() is the raw parsed JSON body and
\* has_exception is True; whenever the failure is before validation (send,
\* status check, JSON parse), get_validated_data() is None.
C15_RawIsDefault ==
    awaited > 0 =>
        LET b == awaitOut.before
            so == awaitOut.send
            f == FirstFailure(b, so)
        IN  /\ FailedInValidation(b, so) =>
                  /\ req.validated_data = RawBody(so)
                  /\ has_exception(req)
            /\ (f # None /\ ~FailedInValidation(b, so)) =>
                  req.validated_data = NoData

----------------------------------------------------------------------------
(* Properties of cancel_tasks *)

\* C4: on Python >= 3.8, when cancel_tasks(task_ids) has returned, every
\* task that was in the loop's registry at the call and whose name is in
\* task_ids has received a cancel request and is done; a task whose name is
\* not in task_ids never receives a cancel request from the call; and the
\* call never raises an exception or cancellation that came from a matched
\* task.
C4_CancelTasks ==
    py38 =>
        /\ ct.pc = "returned" =>
              \A t \in ct.registry :
                  tasks[t].name \in ct.task_ids =>
                      tasks[t].creq >= 1 /\ Done(tasks[t])
        /\ \A t \in TaskIds :
              (tasks[t].st # "absent" /\ tasks[t].name \notin ct.task_ids) =>
                  tasks[t].creq = 0
        /\ ct.pc = "raised" => ct.cause # "task"

\* Witness of C4: cancel_tasks has returned after a matched task answered the
\* cancellation by raising another exception, while a task with another name
\* runs on without a cancel request.
C4_Witness ==
    /\ py38
    /\ ct.pc = "returned"
    /\ \E t \in ct.registry :
          /\ tasks[t].name \in ct.task_ids
          /\ tasks[t].st = "failed"
          /\ tasks[t].creq >= 1
    /\ \E u \in TaskIds :
          /\ tasks[u].st = "pending"
          /\ tasks[u].name \notin ct.task_ids
          /\ tasks[u].creq = 0

----------------------------------------------------------------------------
(* Properties of launch_counter *)

AllIdle == \A p \in Procs : procs[p].pc = "idle"

LaunchesOf(f) == json_load(f.text).val["launches"]

\* C5: with calls made one after another and no I/O failure, starting with
\* no counter file, after n >= 1 calls the file holds {"launches": n}; and a
\* call that finds the file with a count and does not fail rewrites it with
\* that count plus 1.
C5_CountsLaunches ==
    (AllIdle /\ lc.completed >= 1) =>
        /\ (lc.started_absent /\ ~lc.failed) =>
              /\ file.exists
              /\ file.text = <<"{", "\"launches\"", ":">>
                                \o Digits(lc.completed) \o <<"}">>
        /\ (procs[lc.last].failed = None /\ procs[lc.last].before.exists) =>
              /\ file.exists
              /\ json_load(file.text).ok
              /\ LaunchesOf(file)
                    = IntVal(LaunchesOf(procs[lc.last].before).n + 1)

\* Witness of C5: three calls after a start without file, no failure, and
\* the file holds {"launches": 3}.
C5_Witness ==
    /\ AllIdle
    /\ lc.started_absent
    /\ ~lc.failed
    /\ lc.completed = 3
    /\ file = FileWith(<<"{", "\"launches\"", ":", "3", "}">>)

\* C6: launch_counter never propagates an exception, and a call that fails
\* while reading or parsing the existing file (file unreadable, text not
\* JSON, no "launches" key or a value that is not a number) leaves the
\* content of the file unchanged.
C6_SwallowsFailures ==
    /\ \A p \in Procs : procs[p].out \in {None, "returned"}
    /\ (/\ AllIdle
        /\ lc.completed >= 1
        /\ procs[lc.last].failed \in {"read", "parse", "key"}) =>
           file = procs[lc.last].before

\* Witness of C6: a call found a file that is not JSON, returned normally and
\* left the file as it was.
C6_Witness ==
    /\ AllIdle
    /\ lc.completed >= 1
    /\ procs[lc.last].failed = "parse"
    /\ procs[lc.last].out = "returned"
    /\ procs[lc.last].before.exists
    /\ file = procs[lc.last].before

\* C17: the counter is incremented once per call also when calls of
\* different processes overlap: for any interleaving of their steps, once
\* all calls have completed (without I/O failure) the persisted count is the
\* initial count (0 when there was no file) plus the number of calls.
C17_NoLostIncrement ==
    (AllIdle /\ lc.completed >= 1 /\ ~lc.failed) =>
        LET start == IF lc.initial.exists
                     THEN LaunchesOf(lc.initial).n ELSE 0
        IN  /\ file.exists
            /\ json_load(file.text).ok
            /\ LaunchesOf(file) = IntVal(start + lc.completed)

----------------------------------------------------------------------------
(* Properties of the analytics functions *)

\* C7: whatever request failure the POST raises, each of the four analytics
\* functions returns normally.
C7_NeverInterrupts == ping.out \in {None, "returned"}

----------------------------------------------------------------------------
(* Properties of set_directory *)

----------------------------------------------------------------------------
(* Properties of strip_invalid_filename_characters *)

IsPrefix(a, b) == Len(a) <= Len(b) /\ a = SubSeq(b, 1, Len(a))

\* The characters of str that are alphanumeric or one of . _ - and space,
\* in their order.
Filtered(str) ==
    SelectSeq(str, LAMBDA c : isalnum(c) \/ c \in {".", "_", "-", " "})

----------------------------------------------------------------------------
(* Properties of append_unique_suffix *)

\* C10: the call ends, after at most as many tests as there are names, and
\* returns a name that is not in list_of_names: name itself when it is not
\* in the list, otherwise name_k for the smallest k >= 1 with name_k not in
\* the list.
C10_UniqueSuffix ==
    LET in_list(x) == \E i \in 1 .. Len(us.list_of_names) :
                          us.list_of_names[i] = x
    IN  /\ us.pc = "done" =>
              /\ ~in_list(us.new_name)
              /\ ~in_list(us.name) => us.new_name = us.name
              /\ in_list(us.name) =>
                    \E k \in 1 .. Len(us.list_of_names) :
                        /\ us.new_name = us.name \o "_" \o ToString(k)
                        /\ \A j \in 1 .. k - 1 :
                              in_list(us.name \o "_" \o ToString(j))
        /\ us.pc = "loop" =>
              /\ us.suffix_counter >= 1
              /\ us.suffix_counter <= Len(us.list_of_names)
              /\ \A j \in 1 .. us.suffix_counter - 1 :
                    in_list(us.name \o "_" \o ToString(j))

\* Witness of C10: name, name_1 and name_2 are taken and name_3 is returned.
C10_Witness ==
    /\ us.pc = "done"
    /\ us.name = "a"
    /\ us.new_name = "a_3"
    /\ us.suffix_counter = 3

----------------------------------------------------------------------------
(* Properties of sanitize_value_for_csv *)

UnsafeChars == {"=", "+", "-", "@", "\t", "\n"}

\* Starts with an unsafe character, or has a comma directly followed by one.
NeedsQuote(chars) ==
    \/ Len(chars) >= 1 /\ chars[1] \in UnsafeChars
    \/ \E i \in 1 .. Len(chars) - 1 :
          chars[i] = "," /\ chars[i + 1] \in UnsafeChars

\* C11: sanitize_value_for_csv returns a number unchanged; a string that
\* starts with one of = + - @ tab newline, or contains a comma directly
\* followed by one of them, is returned with a quote put in front, and any
\* other string is returned unchanged; so the result for a string never
\* starts with one of the six unsafe characters.
C11_SanitizesCsv ==
    csv.pc = "done" =>
        /\ csv.value.kind = "number" => csv.result = csv.value
        /\ csv.value.kind = "str" =>
              /\ csv.result.kind = "str"
              /\ csv.result.str = IF NeedsQuote(csv.value.str)
                                  THEN <<"'">> \o csv.value.str
                                  ELSE csv.value.str
              /\ \/ csv.result.str = <<>>
                 \/ csv.result.str[1] \notin UnsafeChars

\* A string that is unsafe only by a sequence inside it has been quoted.
C11_Witness ==
    /\ csv.pc = "done"
    /\ csv.value = Str(<<"a", ",", "=">>)
    /\ csv.result = Str(<<"'", "a", ",", "=">>)

----------------------------------------------------------------------------
(* Properties of assert_configs_are_equivalent_besides_ids *)

\* C12: for a well-formed config and an injective renumbering of its ids,
\* applied to the components, the layout and the dependencies' targets,
\* inputs and outputs, the function returns True and leaves both of the
\* caller's dicts as they were.
C12_RenumberingIsEquivalent ==
    (cmp.pc = "done" /\ cmp.config2 = Renumber(cmp.config1, cmp.r)) =>
        /\ cmp.out = "True"
        /\ cmp.after1 = cmp.config1
        /\ cmp.after2 = cmp.config2

\* A config with a nested layout and two dependencies was compared with its
\* reversal-renumbered copy.
C12_Witness ==
    /\ cmp.pc = "done"
    /\ cmp.config2 = Renumber(cmp.config1, cmp.r)
    /\ cmp.config2 # cmp.config1
    /\ Len(cmp.config1.dependencies) = 2
    /\ Len(cmp.config1.components) >= 2
    /\ cmp.config1.layout.children[1].has_children
    /\ cmp.out = "True"

\* C13: the function raises AssertionError for every pair of configs that
\* differ beyond a renumbering of ids: in a root key, in a component's
\* properties, in the shape of the layout tree, or in the dependencies
\* (more dependencies, or more targets, inputs or outputs, in one config).
C13_DetectsDifferences ==
    (cmp.pc = "done" /\ cmp.config2 # Renumber(cmp.config1, cmp.r)) =>
        cmp.out = "AssertionError"

----------------------------------------------------------------------------
(* Properties of set_task_name and get_cancel_function *)

\* Session hashes and function indices whose names could be confused.
NameSessions == {"s", "s_1", "s_10", "s1", "s_"}
NameIndices == {0, 1, 10, 11}

\* C16: the cancel function of get_cancel_function(dependencies), called
\* with session hash s, requests cancellation of exactly the running tasks
\* that set_task_name named with session hash s, the function index of one
\* of the given dependencies, and batch=False; a task named for another
\* session hash or function index is not cancelled by it (different pairs
\* of session hash and function index give different names), and a task
\* for which set_task_name was called with batch=True is not cancelled.
C16_CancelsNamedTasks ==
    /\ \A s1 \in NameSessions, s2 \in NameSessions,
          f1 \in NameIndices, f2 \in NameIndices :
          TaskName(s1, f1) = TaskName(s2, f2) => (s1 = s2 /\ f1 = f2)
    /\ cf.pc = "called" =>
          \A t \in TaskIds :
              tasks[t].creq > 0 <=>
                  /\ t \in ct.registry
                  /\ py38
                  /\ named[t].called
                  /\ named[t].session_hash = cf.session_hash
                  /\ named[t].fn_index \in cf.given
                  /\ ~named[t].batch

====
